---- MODULE Spec2Model ----
(***************************************************************************)
(* Handwritten-to-Text (script.py): the resilient OCR caller               *)
(* ocr_with_gemini (result cache, retry with backoff, model fallback), the *)
(* usage tracker load_usage / save_usage, and the Convert handler of the   *)
(* Streamlit script that drives them.                                      *)
(*                                                                         *)
(* Strings are sequences of one-character strings, so that substring       *)
(* tests, lower-casing, trimming and joining are computed as Python        *)
(* computes them.  Durations are in milliseconds.                          *)
(*                                                                         *)
(* Spec follows a session converting images, PDFs and Word files against   *)
(* a service with one answer of each kind; SpecOcr follows ocr_with_gemini *)
(* for single images against every answer and error description listed,    *)
(* SpecOcrLive the same with the script's steps taken fairly, and SpecRace *)
(* two sessions that share usage.json.                                     *)
(***************************************************************************)
EXTENDS Integers, Sequences, FiniteSets, TLC

\* ------------------------------------------------------------------ bounds
\* Largest number of pages of a PDF / embedded images of a Word file.
MaxItems == 2
\* Number of distinct image byte strings.
MaxData == 2
\* No conversion is started once this many conversions with the shared
\* credential have completed today.
MaxCompleted == 6

\* -------------------------------------------------------- program constants
DAILY_LIMIT == 5
\* range(6): attempts per model candidate
Attempts == 6
\* base = 0.8 seconds
BaseMs == 800
\* random.uniform(0, 0.5): the largest jitter
JitterMaxMs == 500

\* models = [...], tried in this order
models ==
    << "gemini-2.5-flash", "gemini-1.5-flash", "gemini-1.5-flash-8b" >>

\* ------------------------------------------------------------------ strings
Whitespace == {" ", "\n", "\t"}

UpperChars ==
    << "A","B","C","D","E","F","G","H","I","J","K","L","M",
       "N","O","P","Q","R","S","T","U","V","W","X","Y","Z" >>
LowerChars ==
    << "a","b","c","d","e","f","g","h","i","j","k","l","m",
       "n","o","p","q","r","s","t","u","v","w","x","y","z" >>

\* str.lower() on one character
LowerChar(c) ==
    IF \E k \in 1..Len(UpperChars) : UpperChars[k] = c
    THEN LowerChars[CHOOSE k \in 1..Len(UpperChars) : UpperChars[k] = c]
    ELSE c

\* str.lower()
Lower(s) == [k \in 1..Len(s) |-> LowerChar(s[k])]

\* the Python test  sub in s
Contains(sub, s) ==
    \E k \in 0..(Len(s) - Len(sub)) : SubSeq(s, k + 1, k + Len(sub)) = sub

\* str.strip(): drop leading and trailing whitespace
Strip(s) ==
    LET keep == {k \in 1..Len(s) : s[k] \notin Whitespace}
    IN  IF keep = {} THEN << >>
        ELSE LET lo == CHOOSE k \in keep : \A j \in keep : k <= j
                 hi == CHOOSE k \in keep : \A j \in keep : k >= j
             IN  SubSeq(s, lo, hi)

RECURSIVE Digits(_)
\* str(n) for n >= 0
Digits(n) ==
    LET d == << "0","1","2","3","4","5","6","7","8","9" >>
    IN  IF n < 10 THEN << d[n + 1] >>
        ELSE Digits(n \div 10) \o << d[(n % 10) + 1] >>

RECURSIVE Join(_, _)
\* sep.join(parts)
Join(sep, parts) ==
    IF Len(parts) = 0 THEN << >>
    ELSE IF Len(parts) = 1 THEN parts[1]
    ELSE parts[1] \o sep \o Join(sep, Tail(parts))

\* ------------------------------------------------ what the backend can say
\* Error descriptions str(e) of a failed generate_content call.
E503 == << "5","0","3" >>
EUNAVAILABLE == << "U","N","A","V","A","I","L","A","B","L","E" >>
EDeadline == << "D","e","a","d","l","i","n","e" >>
Eunavailable == << "u","n","a","v","a","i","l","a","b","l","e" >>
Etimeout == << "t","i","m","e","o","u","t" >>
E400 == << "4","0","0" >>

Messages == {E503, EUNAVAILABLE, EDeadline, Eunavailable, Etimeout, E400}

\* resp.text of a successful call: None (none = TRUE), or a string with or
\* without surrounding whitespace
RawTexts ==
    { [none |-> TRUE,  s |-> << >>],
      [none |-> FALSE, s |-> << "A" >>],
      [none |-> FALSE, s |-> << " ", "B", "\n" >> ] }

\* the needles of line 105
S503 == << "5","0","3" >>
SUNAVAILABLE == << "U","N","A","V","A","I","L","A","B","L","E" >>
Sdeadline == << "d","e","a","d","l","i","n","e" >>

\* line 105 without the UNAVAILABLE test
IsTransientNoUnavailable(msg) ==
    Contains(S503, msg) \/ Contains(Sdeadline, Lower(msg))

\* line 105: ("503" in msg) or ("UNAVAILABLE" in msg) or ("deadline" in msg.lower())
IsTransient(msg) ==
       Contains(S503, msg)
    \/ Contains(SUNAVAILABLE, msg)
    \/ Contains(Sdeadline, Lower(msg))

RECURSIVE Pow2(_)
Pow2(n) == IF n = 0 THEN 1 ELSE 2 * Pow2(n - 1)

\* line 107 halving the delay with each attempt
SleepMsShrinking(attempt, jitter) == (BaseMs \div Pow2(attempt)) + jitter

\* line 107 with the exponent one too high
SleepMsNextPower(attempt, jitter) == BaseMs * Pow2(attempt + 1) + jitter

\* line 107: sleep_s = base * (2 ** attempt) + random.uniform(0, 0.5)
SleepMs(attempt, jitter) == BaseMs * Pow2(attempt) + jitter

\* the jitter values followed: both ends of [0, 0.5] s and one inside
Jitters == {0, JitterMaxMs \div 2, JitterMaxMs}

\* line 100: (getattr(resp, "text", "") or "").strip()
ResponseText(raw) == IF raw.none THEN << >> ELSE Strip(raw.s)


\* ------------------------------------------------------------ the data model
Sessions == {"s1", "s2"}
Data == 1..MaxData
InputTypes == {"Image", "PDF", "Word"}

\* hashlib.sha1(b).hexdigest(): one digest per byte string
Sha1(b) == << "sha1", b >>

\* lines 192-195: the prompt, an f-string over input_type
Prompt(input_type) ==
    << "Please extract all handwritten text from this ", input_type,
       " exactly as it appears, ", "without adding or removing anything." >>

\* line 80 with the prompt left out of the key
CacheKeyNoPrompt(data, fname, prompt) == << Sha1(data) >>

\* line 80: cache_key = (_sha1(data), prompt)
CacheKey(data, fname, prompt) == << Sha1(data), prompt >>

\* line 81 never finding an entry
CacheHitNever(cache, key) == FALSE

\* line 81: cache_key in _OCR_CACHE
CacheHit(cache, key) == key \in DOMAIN cache

\* line 101 binding the cache to a dict with this entry alone
CachePutOnly(cache, key, text) == [k \in {key} |-> text]

\* line 101: _OCR_CACHE[cache_key] = text
CachePut(cache, key, text) ==
    [k \in DOMAIN cache \cup {key} |-> IF k = key THEN text ELSE cache[k]]

\* line 71: _OCR_CACHE = {}
EmptyCache == [k \in {} |-> << >>]

\* exception objects: None, an error raised by generate_content, RuntimeError
NoneErr == [kind |-> "None", msg |-> << >>]
ApiError(msg) == [kind |-> "APIError", msg |-> msg]
RuntimeError(msg) == [kind |-> "RuntimeError", msg |-> msg]
\* line 114
ModelFailed(model) == RuntimeError(<< "Model ", model, " failed after retries." >>)
\* line 116
AllFailed == RuntimeError(<< "All OCR attempts failed." >>)
\* the python expression  a or b  on exception objects
OrElse(a, b) == IF a = NoneErr THEN b ELSE a

\* date.today().isoformat(), the days of one month
IsoFormat(day) ==
    << "2", "0", "2", "4", "-", "0", "1", "-" >>
        \o (IF day < 10 THEN << "0" >> ELSE << >>) \o Digits(day)

\* usage.json: absent, or {"date": ..., "count": ...}
NoFile == [exists |-> FALSE, date |-> << >>, count |-> 0]
UsageFileOf(d) == [exists |-> TRUE, date |-> d.date, count |-> d.count]

\* lines 125-126 keeping the stored count whatever the stored date
load_usage_keep(file, day) ==
    [date |-> IsoFormat(day), count |-> file.count]

\* lines 118-127
load_usage(file, day) ==
    LET d == IF file.exists THEN [date |-> file.date, count |-> file.count]
             ELSE [date |-> << >>, count |-> 0]
        td == IsoFormat(day)
    IN  IF d.date # td THEN [date |-> td, count |-> 0] ELSE d

\* line 183 never refusing
LimitReachedNever(usage) == FALSE

\* line 183 with > for >=
LimitReachedStrict(usage) == usage.count > DAILY_LIMIT

\* line 183: usage["count"] >= DAILY_LIMIT
LimitReached(usage) == usage.count >= DAILY_LIMIT

\* the name  usage  is unbound when the personal credential is used
NoUsage == [date |-> << >>, count |-> 0]

\* st.secrets["genai"]["api_key"], a personal key, an empty text input
DEFAULT_API_KEY == "shared-key"
UserKey == "user-key"
EmptyKey == ""

\* line 187 never refusing
KeyMissingNever(api_key) == FALSE

\* line 187: not api_key
KeyMissing(api_key) == api_key = EmptyKey

\* line 167: output_type
OutputTypes == {"TXT", "PDF", "DOCX"}

\* what the uploaded file holds: the bytes of an image, or whether the
\* container opens (fitz.open / zipfile.ZipFile) and how many pages or
\* word/media/ entries it has
Uploads(input_type) ==
    IF input_type = "Image"
    THEN [name : {"scan.png"}, opens : {TRUE}, n : {1}, raw : Data]
    ELSE [name : {"doc"}, opens : BOOLEAN, n : 0..MaxItems, raw : {0}]


\* ------------------------------------------------------ texts of the handler
\* line 249: the separator of the joined result
PageBreak ==
    << "\n","\n","-","-","-"," ","P","a","g","e"," ","B","r","e","a","k",
       " ","-","-","-","\n","\n" >>

SPage ==
    << "[","P","a","g","e"," " >>
SImage ==
    << "[","I","m","a","g","e"," " >>
SFailed ==
    << " ","f","a","i","l","e","d"," ","a","f","t","e","r"," ","r","e",
       "t","r","i","e","s",":"," " >>
SClose == << "]" >>

\* line 228: f"[Page {i} failed after retries: {e}]"
PageFailed(i, e) == SPage \o Digits(i) \o SFailed \o e.msg \o SClose
\* line 246: f"[Image {i} failed after retries: {e}]"
ImageFailed(i, e) == SImage \o Digits(i) \o SFailed \o e.msg \o SClose

\* page.get_pixmap / pix.tobytes failing on a page
RasterError == ApiError(<< "b","a","d"," ","p","a","g","e" >>)

\* line 249: "\n\n--- Page Break ---\n\n".join(t.strip() for t in texts)
FullText(texts) == Join(PageBreak, [k \in 1..Len(texts) |-> Strip(texts[k])])


\* -------------------------------------------------------------------- state
VARIABLES
    usageFile,  \* the contents of usage.json, shared by every session
    completed,  \* conversions completed today with the shared credential
    today,      \* date.today(), as a day of the month
    service,    \* what generate_content answers: [raws, msgs]
    offered,    \* the input types the user converts
    sess        \* per session: the script's names and its position

vars == << usageFile, completed, today, service, offered, sess >>

\* what the steps of a session leave alone besides usage.json
env == << today, service, offered >>

\* the remote service with every response and error description above
FullService == [raws |-> RawTexts, msgs |-> Messages]

\* the remote service with one response and one error description of each
\* kind: no text, a padded text, a transient error, another error
PlainService ==
    [raws |-> { [none |-> TRUE, s |-> << >>],
                [none |-> FALSE, s |-> << " ", "B", "\n" >>] },
     msgs |-> {E503, E400}]

\* no generate_content call made yet in this invocation
NoOut == [kind |-> "none", model |-> "", attempt |-> 0,
          raw |-> [none |-> TRUE, s |-> << >>], err |-> NoneErr]

\* A session before its first Convert.  Fields of the script: cache
\* (_OCR_CACHE), use_default, api_key, usage, input_type, total, i, texts,
\* full_text; of ocr_with_gemini: data, fname, prompt, key, model, attempt,
\* last_err.  st/text/err: how the invocation ended (returned text, raised
\* err).  outcome: how the conversion ended.  Observations: calls and sleeps
\* of the invocation, lastSleep (the last backoff), lastOut (the last
\* generate_content call and its outcome).  The locals model, attempt and
\* last_err are gone when the invocation returns or raises; what it leaves
\* (st, text, err and the observations) stays until the handler goes on.
NewSession(pc) ==
    [ pc |-> pc, cache |-> EmptyCache,
      use_default |-> TRUE, api_key |-> DEFAULT_API_KEY, usage |-> NoUsage,
      input_type |-> "Image", total |-> 0, i |-> 0, texts |-> << >>,
      full_text |-> << >>, outcome |-> "none",
      data |-> 0, fname |-> << >>, prompt |-> << >>, key |-> << >>,
      model |-> 0, attempt |-> 0, last_err |-> NoneErr,
      st |-> "none", text |-> << >>, err |-> NoneErr,
      calls |-> 0, sleeps |-> 0, lastSleep |-> 0, lastOut |-> NoOut ]

\* usage.json as an earlier process can have left it: absent, written today
\* by save_usage after an increment, or left at the limit the day before
InitFiles(day) ==
    {NoFile}
    \cup { [exists |-> TRUE, date |-> IsoFormat(day), count |-> c] :
             c \in 1..DAILY_LIMIT }
    \cup { [exists |-> TRUE, date |-> IsoFormat(day - 1), count |-> DAILY_LIMIT] }

\* the conversions a record in usage.json stands for on the given day: each
\* save_usage follows one completed conversion (lines 274-275)
CountToday(file, day) ==
    IF file.exists /\ file.date = IsoFormat(day) THEN file.count ELSE 0

\* one session; documents of every input type; the plain service
Init ==
    /\ today = 2
    /\ usageFile \in InitFiles(today)
    /\ completed = CountToday(usageFile, today)
    /\ service = PlainService
    /\ offered = InputTypes
    /\ sess = [s \in Sessions |->
                 IF s = "s1" THEN NewSession("idle") ELSE NewSession("off")]

\* one session; single images; the full service
InitOcr ==
    /\ today = 2
    /\ usageFile \in InitFiles(today)
    /\ completed = CountToday(usageFile, today)
    /\ service = FullService
    /\ offered = {"Image"}
    /\ sess = [s \in Sessions |->
                 IF s = "s1" THEN NewSession("idle") ELSE NewSession("off")]

\* ---------------------------------------------------------- ocr_with_gemini
\* lines 80-93 with the loop over the models entered at the second one
StartOcrSecond(r, data, fname, prompt) ==
    LET key == CacheKey(data, fname, prompt)
        r0  == [r EXCEPT !.pc = "ocr", !.data = data, !.fname = fname,
                         !.prompt = prompt, !.key = key,
                         !.model = 0, !.attempt = 0, !.last_err = NoneErr,
                         !.text = << >>, !.err = NoneErr,
                         !.calls = 0, !.sleeps = 0, !.lastSleep = 0,
                         !.lastOut = NoOut]
    IN  IF CacheHit(r.cache, key)
        THEN [r0 EXCEPT !.st = "returned", !.text = r.cache[key]]
        ELSE [r0 EXCEPT !.st = "running", !.model = 2, !.attempt = 0]

\* lines 80-93: the cache lookup, and the start of the loops on a miss
StartOcr(r, data, fname, prompt) ==
    LET key == CacheKey(data, fname, prompt)
        r0  == [r EXCEPT !.pc = "ocr", !.data = data, !.fname = fname,
                         !.prompt = prompt, !.key = key,
                         !.model = 0, !.attempt = 0, !.last_err = NoneErr,
                         !.text = << >>, !.err = NoneErr,
                         !.calls = 0, !.sleeps = 0, !.lastSleep = 0,
                         !.lastOut = NoOut]
    IN  IF CacheHit(r.cache, key)
        THEN [r0 EXCEPT !.st = "returned", !.text = r.cache[key]]
        ELSE [r0 EXCEPT !.st = "running", !.model = 1, !.attempt = 0]

\* the call made in this iteration: line 96 with model = models[r.model]
CallOut(r, kind, raw, e) ==
    [kind |-> kind, model |-> models[r.model], attempt |-> r.attempt,
     raw |-> raw, err |-> e]

\* lines 100-102: a call that succeeds
OnSuccess(r, raw) ==
    LET text == ResponseText(raw)
    IN  [r EXCEPT !.text = text, !.st = "returned",
                  !.model = 0, !.attempt = 0, !.last_err = NoneErr,
                  !.cache = CachePut(r.cache, r.key, text),
                  !.calls = @ + 1,
                  !.lastOut = CallOut(r, "ok", raw, NoneErr)]

\* line 93: for attempt in range(6), one attempt short
MoreAttemptsShort(attempt) == attempt + 1 < Attempts - 1

\* line 93: for attempt in range(6), one attempt more
MoreAttemptsLong(attempt) == attempt + 1 < Attempts + 1

\* line 93: for attempt in range(6) has another attempt after this one
MoreAttempts(attempt) == attempt + 1 < Attempts

\* line 116 raising the generic error whatever was recorded
ExhaustedErrorGeneric(last_err) == AllFailed

\* line 116: raise last_err or RuntimeError("All OCR attempts failed.")
ExhaustedError(last_err) == OrElse(last_err, AllFailed)

\* lines 106-110 and, at the end of the attempts, lines 113-116
OnTransient(r, e, jitter) ==
    LET slept == [r EXCEPT !.calls = @ + 1, !.sleeps = @ + 1,
                           !.lastSleep = SleepMs(r.attempt, jitter),
                           !.last_err = e,
                           !.lastOut = CallOut(r, "err", NoOut.raw, e)]
        le    == OrElse(slept.last_err, ModelFailed(models[r.model]))
    IN  IF MoreAttempts(r.attempt)
        THEN [slept EXCEPT !.attempt = @ + 1]
        ELSE IF r.model < Len(models)
        THEN [slept EXCEPT !.model = @ + 1, !.attempt = 0, !.last_err = le]
        ELSE [slept EXCEPT !.st = "raised", !.err = ExhaustedError(le),
                           !.model = 0, !.attempt = 0, !.last_err = NoneErr]

\* line 112 handled like the transient branch
OnFatalRetry(r, e) == OnTransient(r, e, 0)

\* lines 111-112: raise
OnFatal(r, e) ==
    [r EXCEPT !.calls = @ + 1, !.st = "raised", !.err = e,
              !.model = 0, !.attempt = 0, !.last_err = NoneErr,
              !.lastOut = CallOut(r, "err", NoOut.raw, e)]

Running(s) == sess[s].pc = "ocr" /\ sess[s].st = "running"

\* one iteration of the loops whose call returns a response
OcrSuccess(s) ==
    /\ Running(s)
    /\ \E raw \in service.raws :
         sess' = [sess EXCEPT ![s] = OnSuccess(sess[s], raw)]
    /\ UNCHANGED << usageFile, completed, env >>

\* one iteration whose call raises an error classified transient
OcrTransient(s) ==
    /\ Running(s)
    /\ \E msg \in service.msgs, jitter \in Jitters :
         /\ IsTransient(msg)
         /\ sess' = [sess EXCEPT ![s] = OnTransient(sess[s], ApiError(msg), jitter)]
    /\ UNCHANGED << usageFile, completed, env >>

\* one iteration whose call raises any other error
OcrFatal(s) ==
    /\ Running(s)
    /\ \E msg \in service.msgs :
         /\ ~IsTransient(msg)
         /\ sess' = [sess EXCEPT ![s] = OnFatal(sess[s], ApiError(msg))]
    /\ UNCHANGED << usageFile, completed, env >>


\* ------------------------------------------------------- the Convert handler
\* The script is run again from its first line for the press: line 71 binds
\* _OCR_CACHE to a new dict, lines 154-163 read the credential choice.
Rerun(r, choice, entered, input_type) ==
    [r EXCEPT !.cache = EmptyCache,
              !.use_default = (choice = "default"),
              !.api_key = IF choice = "default" THEN DEFAULT_API_KEY ELSE entered,
              !.usage = NoUsage, !.input_type = input_type,
              !.total = 0, !.i = 0, !.texts = << >>, !.full_text = << >>,
              !.outcome = "running"]

\* st.stop() or the outer except: the run ends here
Stop(r, outcome) == [r EXCEPT !.pc = "idle", !.outcome = outcome]

\* lines 197-240 without the tests of lines 208 and 238: the loop over no
\* items leaves texts empty
DispatchNoCheck(r, up) ==
    IF r.input_type = "Image"
    THEN StartOcr(r, up.raw, up.name, Prompt(r.input_type))
    ELSE IF ~up.opens THEN Stop(r, "error")
    ELSE IF up.n = 0 THEN [r EXCEPT !.pc = "join", !.total = 0, !.i = 1]
    ELSE [r EXCEPT !.pc = "loop", !.total = up.n, !.i = 1]

\* lines 197-240: read the upload and enter the branch of its type
Dispatch(r, up) ==
    IF r.input_type = "Image"
    THEN StartOcr(r, up.raw, up.name, Prompt(r.input_type))
    ELSE IF ~up.opens THEN Stop(r, "error")
    ELSE IF up.n = 0 THEN Stop(r, "no_items")
    ELSE [r EXCEPT !.pc = "loop", !.total = up.n, !.i = 1]

\* lines 180-240: Convert is pressed with a file uploaded
PressConvert(s) ==
    /\ sess[s].pc = "idle"
    /\ completed < MaxCompleted
    /\ \E choice \in {"default", "own"}, entered \in {EmptyKey, UserKey},
          input_type \in offered :
         \E up \in Uploads(input_type) :
           LET r0 == Rerun(sess[s], choice, entered, input_type)
               r1 == IF r0.use_default
                     THEN [r0 EXCEPT !.usage = load_usage(usageFile, today)]
                     ELSE r0
           IN  sess' = [sess EXCEPT ![s] =
                 IF r1.use_default /\ LimitReached(r1.usage)
                 THEN Stop(r1, "refused_limit")
                 ELSE IF KeyMissing(r1.api_key)
                 THEN Stop(r1, "refused_key")
                 ELSE Dispatch(r1, up)]
    /\ UNCHANGED << usageFile, completed, env >>

\* lines 229-232 / 247 leaving the loop after the item
AfterItemLast(r, segment) ==
    [r EXCEPT !.texts = Append(@, segment), !.i = @ + 1, !.pc = "join"]

\* lines 229-232 / 247: on to the next page or image, or to the join
AfterItem(r, segment) ==
    [r EXCEPT !.texts = Append(@, segment), !.i = @ + 1,
              !.pc = IF r.i + 1 > r.total THEN "join" ELSE "loop"]

\* the name of page i / of the i-th word/media/ entry
ItemName(input_type, i) ==
    IF input_type = "PDF" THEN << "page-", i, ".png" >>
    ELSE << "image", i, ".png" >>

\* lines 218-224 / 241-244: the next page is rendered, the next image read,
\* and handed to ocr_with_gemini
NextItem(s) ==
    /\ sess[s].pc = "loop"
    /\ \E d \in Data :
         sess' = [sess EXCEPT ![s] =
                    StartOcr(sess[s], d, ItemName(sess[s].input_type, sess[s].i),
                             Prompt(sess[s].input_type))]
    /\ UNCHANGED << usageFile, completed, env >>

\* lines 220-221 raise: the page's placeholder (line 228); line 242 raises
\* outside the inner try: the outer except (line 278)
ItemUnreadable(s) ==
    /\ sess[s].pc = "loop"
    /\ sess' = [sess EXCEPT ![s] =
                  IF sess[s].input_type = "PDF"
                  THEN AfterItem(sess[s], PageFailed(sess[s].i, RasterError))
                  ELSE Stop(sess[s], "error")]
    /\ UNCHANGED << usageFile, completed, env >>

\* the names local to ocr_with_gemini are gone once it has returned or raised
Leave(r) ==
    [r EXCEPT !.data = 0, !.fname = << >>, !.prompt = << >>, !.key = << >>,
              !.model = 0, !.attempt = 0, !.last_err = NoneErr,
              !.st = "none", !.text = << >>, !.err = NoneErr,
              !.calls = 0, !.sleeps = 0, !.lastSleep = 0, !.lastOut = NoOut]

\* line 203 wrapped like lines 243-246: a failed image gives a placeholder
OcrDonePlaceholder(s) ==
    /\ sess[s].pc = "ocr"
    /\ sess[s].st \in {"returned", "raised"}
    /\ LET r == sess[s]
       IN  sess' = [sess EXCEPT ![s] =
             IF r.input_type = "Image"
             THEN [Leave(r) EXCEPT
                     !.texts = << IF r.st = "returned" THEN r.text
                                  ELSE ImageFailed(1, r.err) >>,
                     !.pc = "join"]
             ELSE IF r.st = "returned" THEN AfterItem(Leave(r), r.text)
             ELSE IF r.input_type = "PDF"
             THEN AfterItem(Leave(r), PageFailed(r.i, r.err))
             ELSE AfterItem(Leave(r), ImageFailed(r.i, r.err))]
    /\ UNCHANGED << usageFile, completed, env >>

\* lines 203, 222-228, 244-246: ocr_with_gemini has returned or raised
OcrDone(s) ==
    /\ sess[s].pc = "ocr"
    /\ sess[s].st \in {"returned", "raised"}
    /\ LET r == sess[s]
       IN  sess' = [sess EXCEPT ![s] =
             IF r.input_type = "Image"
             THEN IF r.st = "returned"
                  THEN [Leave(r) EXCEPT !.texts = << r.text >>, !.pc = "join"]
                  ELSE Stop(Leave(r), "error")
             ELSE IF r.st = "returned" THEN AfterItem(Leave(r), r.text)
             ELSE IF r.input_type = "PDF"
             THEN AfterItem(Leave(r), PageFailed(r.i, r.err))
             ELSE AfterItem(Leave(r), ImageFailed(r.i, r.err))]
    /\ UNCHANGED << usageFile, completed, env >>

\* lines 129-131 writing a first use whatever the count
save_usage_first(d) == UsageFileOf([d EXCEPT !.count = 1])

\* lines 129-131
save_usage(d) == UsageFileOf(d)

\* lines 249-276: join, show, encode for the download, count the use of the
\* shared credential.  make_pdf / make_docx can raise on the text (line 140
\* encodes to latin1), which the outer except reports.
Finish(s) ==
    /\ sess[s].pc = "join"
    /\ \E output_type \in OutputTypes, encodes \in BOOLEAN :
         LET r    == sess[s]
             full == FullText(r.texts)
             used == [r.usage EXCEPT !.count = @ + 1]
         IN  IF Strip(full) = << >>
             THEN /\ sess' = [sess EXCEPT ![s] =
                                [Stop(r, "empty") EXCEPT !.full_text = full]]
                  /\ UNCHANGED << usageFile, completed >>
             ELSE IF output_type # "TXT" /\ ~encodes
             THEN /\ sess' = [sess EXCEPT ![s] =
                                [Stop(r, "error") EXCEPT !.full_text = full]]
                  /\ UNCHANGED << usageFile, completed >>
             ELSE IF r.use_default
             THEN /\ sess' = [sess EXCEPT ![s] =
                                [Stop(r, "ok") EXCEPT !.full_text = full,
                                                      !.usage = used]]
                  /\ usageFile' = save_usage(used)
                  /\ completed' = completed + 1
             ELSE /\ sess' = [sess EXCEPT ![s] =
                                [Stop(r, "ok") EXCEPT !.full_text = full]]
                  /\ UNCHANGED << usageFile, completed >>
    /\ UNCHANGED env

Next ==
    \/ \E s \in Sessions :
         \/ PressConvert(s)
         \/ NextItem(s)
         \/ ItemUnreadable(s)
         \/ OcrSuccess(s)
         \/ OcrTransient(s)
         \/ OcrFatal(s)
         \/ OcrDone(s)
         \/ Finish(s)

\* the steps of a session that converts single images
NextOcr ==
    \E s \in Sessions :
      \/ PressConvert(s)
      \/ OcrSuccess(s)
      \/ OcrTransient(s)
      \/ OcrFatal(s)
      \/ OcrDone(s)
      \/ Finish(s)

\* every input type, the plain service
Spec == Init /\ [][Next]_vars

\* ocr_with_gemini under the full service, called for single images
SpecOcr == InitOcr /\ [][NextOcr]_vars

\* The script runs on one thread per session: a generate_content call
\* returns or raises and time.sleep ends, so the loop of ocr_with_gemini
\* takes its next iteration; when it has returned or raised the handler goes
\* on, through its loop to the join.  Nothing makes a user press Convert.
\* Run is a step of the script that is not a press.
Run ==
    \E s \in Sessions :
      \/ NextItem(s)
      \/ ItemUnreadable(s)
      \/ OcrSuccess(s)
      \/ OcrTransient(s)
      \/ OcrFatal(s)
      \/ OcrDone(s)
      \/ Finish(s)

Progress == WF_vars(Run)

\* the remote service that answers every call with one text
TextService == [raws |-> { [none |-> FALSE, s |-> << "A" >>] }, msgs |-> {}]

\* two sessions (two browser tabs on the one server and its usage.json);
\* single images; every call answered
InitRace ==
    /\ today = 2
    /\ usageFile \in InitFiles(today)
    /\ completed = CountToday(usageFile, today)
    /\ service = TextService
    /\ offered = {"Image"}
    /\ sess = [s \in Sessions |-> NewSession("idle")]

\* the steps of sessions whose calls are all answered
NextRace ==
    \E s \in Sessions :
      \/ PressConvert(s)
      \/ OcrSuccess(s)
      \/ OcrDone(s)
      \/ Finish(s)

\* two sessions sharing usage.json, their steps interleaved
SpecRace == InitRace /\ [][NextRace]_vars

\* single images, the full service, the script keeps running
SpecOcrLive == InitOcr /\ [][NextOcr]_vars /\ Progress


\* ------------------------------------------------------------------- claims
\* the position of candidate name m in the order the claims give
CandidateOrder ==
    << "gemini-2.5-flash", "gemini-1.5-flash", "gemini-1.5-flash-8b" >>

\* 3 candidates x 6 attempts
MaxCalls == Len(CandidateOrder) * Attempts

\* a generate_content call of this invocation raised e, and the loop took
\* the backoff branch / the raise branch on it
LastFailed(r) == r.lastOut.kind = "err"

\* an invocation begins in this step (from the handler's press or loop)
Begins(s) == sess[s].pc \in {"idle", "loop"} /\ sess'[s].pc = "ocr"

\* C1: a request whose (bytes, prompt) key an earlier request of the session
\* has stored a text for makes no generate_content call and returns exactly
\* that text.
C1_SecondRequestFromCache ==
    [][\A s \in Sessions :
         (Begins(s) /\ sess'[s].key \in DOMAIN sess[s].cache)
           => /\ sess'[s].st = "returned"
              /\ sess'[s].calls = 0
              /\ sess'[s].text = sess[s].cache[sess'[s].key]]_vars

\* C2: a call that fails with a non-transient error ends the invocation at
\* once with that same error: it is the last call, no backoff follows it
\* (one sleep per earlier failed call only), and on attempt 1 of the first
\* model it is the only call.
C2_FatalPropagates ==
    \A s \in Sessions :
      LET r == sess[s]
      IN  (LastFailed(r) /\ ~IsTransient(r.lastOut.err.msg))
            => /\ r.st = "raised"
               /\ r.err = r.lastOut.err
               /\ r.sleeps = r.calls - 1
               /\ (r.lastOut.model = CandidateOrder[1] /\ r.lastOut.attempt = 0)
                     => r.calls = 1

C2_Witness ==
    \E s \in Sessions :
      /\ sess[s].st = "raised"
      /\ sess[s].lastOut.err.msg = E400
      /\ sess[s].lastOut.model = CandidateOrder[1]
      /\ sess[s].lastOut.attempt = 0
      /\ sess[s].calls = 1

\* C3, the result: after k < 6 transient failures on a model the call that
\* succeeds ends the invocation, which returns that call's trimmed text,
\* on the same model, having slept once per failed call.
C3_Returned ==
    \A s \in Sessions :
      LET r == sess[s]
      IN  (r.st = "returned" /\ r.calls > 0)
            => /\ r.lastOut.kind = "ok"
               /\ r.text = (IF r.lastOut.raw.none THEN << >>
                            ELSE Strip(r.lastOut.raw.s))
               /\ r.sleeps = r.calls - 1
               /\ r.lastOut.attempt = (r.calls - 1) % Attempts
               /\ r.lastOut.attempt < Attempts

\* C3, the sleeps: each backoff on a candidate is at least as long as the
\* one before it on that candidate.
C3_Monotone ==
    \A s \in Sessions :
      (/\ sess[s].st = "running"
       /\ sess[s].attempt > 0
       /\ sess'[s].sleeps = sess[s].sleeps + 1)
        => sess'[s].lastSleep >= sess[s].lastSleep

\* C3: k < 6 transient failures on a model followed by a success return the
\* successful result from that model after exactly one backoff sleep per
\* failed attempt, the sleeps non-decreasing.
C3_RetryThenSuccess == []C3_Returned /\ [][C3_Monotone]_vars

C3_Witness ==
    \E s \in Sessions :
      /\ sess[s].st = "returned"
      /\ sess[s].lastOut.kind = "ok"
      /\ sess[s].lastOut.attempt = 3
      /\ sess[s].sleeps = 3
      /\ sess[s].text = << "B" >>

\* C4: the n-th call of an invocation goes to candidate (n-1) div 6 + 1 of
\* the fixed order, as attempt (n-1) mod 6; a candidate gets at most 6
\* attempts, and the caller is at candidate m, attempt a exactly when the
\* 6(m-1) + a calls made so far all failed, the last one transiently.
C4_CandidateOrder ==
    \A s \in Sessions :
      LET r == sess[s]
      IN  /\ r.lastOut.kind # "none"
             => /\ r.calls \in 1..MaxCalls
                /\ r.lastOut.model = CandidateOrder[((r.calls - 1) \div Attempts) + 1]
                /\ r.lastOut.attempt = (r.calls - 1) % Attempts
          /\ r.st = "running"
             => /\ r.model \in 1..Len(CandidateOrder)
                /\ r.attempt \in 0..(Attempts - 1)
                /\ r.calls = Attempts * (r.model - 1) + r.attempt
                /\ r.calls > 0 => (LastFailed(r) /\ IsTransient(r.lastOut.err.msg))

C4_Witness ==
    \E s \in Sessions :
      /\ sess[s].st = "running"
      /\ sess[s].model = 3
      /\ sess[s].attempt = 0
      /\ sess[s].calls = 12
      /\ sess[s].lastOut.model = "gemini-1.5-flash"

\* C5: when the last of the 18 calls fails transiently too, the invocation
\* raises that call's error, not a generic RuntimeError.
C5_ExhaustionRaisesLast ==
    \A s \in Sessions :
      LET r == sess[s]
      IN  (r.calls = MaxCalls /\ LastFailed(r) /\ IsTransient(r.lastOut.err.msg))
            => /\ r.st = "raised"
               /\ r.err = r.lastOut.err
               /\ r.err.kind = "APIError"

C5_Witness ==
    \E s \in Sessions :
      /\ sess[s].st = "raised"
      /\ sess[s].calls = MaxCalls
      /\ sess[s].err = ApiError(EDeadline)

\* C6 as stated: the backoff slept before attempt n (the attempt about to be
\* made) is base * 2^n + jitter, jitter in [0, 0.5] s.
C6_SleepBeforeAttemptN ==
    \A s \in Sessions :
      LET r == sess[s]
      IN  (r.st = "running" /\ r.calls > 0)
            => /\ r.lastSleep >= BaseMs * Pow2(r.attempt)
               /\ r.lastSleep <= BaseMs * Pow2(r.attempt) + JitterMaxMs

\* C6 amended: the backoff slept after the transient failure of attempt n
\* (before attempt n+1, or after attempt 5 before the next candidate or the
\* raise) is base * 2^n + jitter, base = 0.8 s, jitter in [0, 0.5] s; before
\* the first call of an invocation nothing is slept.
C6_SleepAfterAttemptN ==
    \A s \in Sessions :
      LET r == sess[s]
      IN  /\ (LastFailed(r) /\ IsTransient(r.lastOut.err.msg))
             => /\ r.lastSleep >= BaseMs * Pow2(r.lastOut.attempt)
                /\ r.lastSleep <= BaseMs * Pow2(r.lastOut.attempt) + JitterMaxMs
          /\ r.calls = 0 => (r.lastSleep = 0 /\ r.sleeps = 0)

C6_Witness ==
    \E s \in Sessions :
      /\ sess[s].st = "running"
      /\ sess[s].attempt = 3
      /\ sess[s].lastOut.attempt = 2
      /\ sess[s].lastSleep = 3700

\* the substrings of C7
NeedleUnavailableLower == << "u","n","a","v","a","i","l","a","b","l","e" >>
NeedleTimeout == << "t","i","m","e","o","u","t" >>
Needle503 == << "5","0","3" >>
NeedleUNAVAILABLE == << "U","N","A","V","A","I","L","A","B","L","E" >>
NeedleDeadline == << "d","e","a","d","l","i","n","e" >>

\* C7 as stated: a description that, whatever its case, names a 503 status,
\* unavailability, a deadline or a timeout
SignalsTransientAnyCase(msg) ==
    \/ Contains(Needle503, msg)
    \/ Contains(NeedleUnavailableLower, Lower(msg))
    \/ Contains(NeedleDeadline, Lower(msg))
    \/ Contains(NeedleTimeout, Lower(msg))

\* C7 amended: "503", upper-case "UNAVAILABLE", or "deadline" in any case
SignalsTransientAsCoded(msg) ==
    \/ Contains(Needle503, msg)
    \/ Contains(NeedleUNAVAILABLE, msg)
    \/ Contains(NeedleDeadline, Lower(msg))

\* C7 as stated: a failed call (not the 18th) is followed by another attempt
\* exactly when its description, matched case-insensitively, signals a 503,
\* UNAVAILABLE, a deadline or a timeout; otherwise its error is raised.
C7_RetryIffSignalsAnyCase ==
    \A s \in Sessions :
      LET r == sess[s]
      IN  (LastFailed(r) /\ r.calls < MaxCalls)
            => /\ (r.st = "running") <=> SignalsTransientAnyCase(r.lastOut.err.msg)
               /\ ~SignalsTransientAnyCase(r.lastOut.err.msg)
                     => (r.st = "raised" /\ r.err = r.lastOut.err)

\* C7 amended: a failed call (not the 18th) is followed by another attempt
\* exactly when its description contains "503", contains "UNAVAILABLE" in
\* upper case, or contains "deadline" in any case; with any other
\* description (lower-case "unavailable" and "timeout" among them) its error
\* is raised at once.
C7_RetryIffSignalsAsCoded ==
    \A s \in Sessions :
      LET r == sess[s]
      IN  (LastFailed(r) /\ r.calls < MaxCalls)
            => /\ (r.st = "running") <=> SignalsTransientAsCoded(r.lastOut.err.msg)
               /\ ~SignalsTransientAsCoded(r.lastOut.err.msg)
                     => (r.st = "raised" /\ r.err = r.lastOut.err)

C7_Witness ==
    \E s \in Sessions :
      /\ sess[s].st = "running"
      /\ sess[s].lastOut.err.msg = EUNAVAILABLE
      /\ sess[s].attempt = 1

\* C8: a cache entry, once written, is there with the same text after every
\* step of the session (no step models a process restart).
C8_CacheEntriesStay ==
    [][\A s \in Sessions : \A k \in DOMAIN sess[s].cache :
         /\ k \in DOMAIN sess'[s].cache
         /\ sess'[s].cache[k] = sess[s].cache[k]]_vars

\* today's count in usage.json
TodayCount ==
    IF usageFile.exists /\ usageFile.date = IsoFormat(today)
    THEN usageFile.count ELSE 0

\* Convert is pressed in this step (only a press changes an idle session)
Pressed(s) == sess[s].pc = "idle" /\ sess'[s] # sess[s]

\* C9: a press with the shared credential while today's count is >= 5 is
\* refused: the run stops before ocr_with_gemini is entered, so no remote
\* call is made, and usage.json is left as it was.
C9_LimitRefuses ==
    [][\A s \in Sessions :
         (Pressed(s) /\ sess'[s].use_default /\ TodayCount >= DAILY_LIMIT)
           => /\ sess'[s].pc = "idle"
              /\ sess'[s].outcome = "refused_limit"
              /\ sess'[s].st = "none"
              /\ sess'[s].calls = 0
              /\ usageFile' = usageFile]_vars

C9_Witness ==
    \E s \in Sessions :
      /\ sess[s].outcome = "refused_limit"
      /\ sess[s].use_default
      /\ sess[s].pc = "idle"
      /\ TodayCount = DAILY_LIMIT

\* C10: load_usage, called at a press with the shared credential, returns
\* today's date with count 0 when the stored date is not today or there is
\* no record (so a record of an earlier day at the limit does not refuse the
\* press), and the stored record unchanged when its date is today.
C10_LoadUsage ==
    [][\A s \in Sessions :
         (Pressed(s) /\ sess'[s].use_default)
           => /\ sess'[s].usage.date = IsoFormat(today)
              /\ sess'[s].usage.count = TodayCount
              /\ (~usageFile.exists \/ usageFile.date # IsoFormat(today))
                    => /\ sess'[s].usage.count = 0
                       /\ sess'[s].outcome # "refused_limit"]_vars

C10_Witness ==
    \E s \in Sessions :
      /\ sess[s].pc = "ocr"
      /\ sess[s].use_default
      /\ usageFile.exists
      /\ usageFile.date # IsoFormat(today)
      /\ usageFile.count = DAILY_LIMIT
      /\ sess[s].usage = [date |-> IsoFormat(today), count |-> 0]

\* a conversion of session s ends in this step: refused or stopped at the
\* press, aborted, or run to its end
Ends(s) == sess'[s] # sess[s] /\ sess'[s].pc = "idle"

\* the conversion ending in this step succeeded (the text and the download
\* are shown) and used the shared credential
EndsCounted(s) ==
    Ends(s) /\ sess'[s].outcome = "ok" /\ sess'[s].use_default

\* C11: a conversion that succeeds with the shared credential leaves
\* usage.json holding today's date and today's count plus exactly 1; every
\* other step (a conversion with a personal key, a refused press, an abort
\* with an error, a structural stop, any step inside a conversion) leaves
\* usage.json as it was.
C11_UsageChangesOnlyOnSuccess ==
    [][/\ (\E s \in Sessions : EndsCounted(s))
             => usageFile' = [exists |-> TRUE, date |-> IsoFormat(today),
                              count |-> TodayCount + 1]
       /\ (~ \E s \in Sessions : EndsCounted(s))
             => usageFile' = usageFile]_vars

C11_Witness ==
    \E s \in Sessions :
      /\ sess[s].pc = "idle"
      /\ sess[s].outcome = "ok"
      /\ sess[s].use_default
      /\ sess[s].input_type = "PDF"
      /\ usageFile = [exists |-> TRUE, date |-> IsoFormat(today), count |-> 3]

\* the texts of C12
C12_Separator ==
    << "\n","\n","-","-","-"," ","P","a","g","e"," ","B","r","e","a","k",
       " ","-","-","-","\n","\n" >>
C12_PageOpen == << "[","P","a","g","e"," " >>
C12_ImageOpen == << "[","I","m","a","g","e"," " >>
C12_Failed ==
    << " ","f","a","i","l","e","d"," ","a","f","t","e","r"," ","r","e",
       "t","r","i","e","s",":"," " >>

\* '[Page i failed after retries: ...]' for a PDF, '[Image i ...]' for a
\* Word file, the dots being the description of the error
C12_Placeholder(input_type, i, msg) ==
    (IF input_type = "PDF" THEN C12_PageOpen ELSE C12_ImageOpen)
        \o Digits(i) \o C12_Failed \o msg \o << "]" >>

\* segment is a placeholder of item i with some description
C12_IsPlaceholder(input_type, i, segment) ==
    LET open == C12_Placeholder(input_type, i, << >>)
        n    == Len(open) - 1
    IN  /\ Len(segment) >= Len(open)
        /\ SubSeq(segment, 1, n) = SubSeq(open, 1, n)
        /\ segment[Len(segment)] = "]"

Batch(r) == r.input_type \in {"PDF", "Word"}

\* C12, the state: while items are processed there is one segment per item
\* done, and at the join one per item of the document.
C12_OnePerItem ==
    \A s \in Sessions :
      LET r == sess[s]
      IN  Batch(r) =>
            /\ r.pc \in {"loop", "ocr"} => (Len(r.texts) = r.i - 1 /\ r.i <= r.total)
            /\ r.pc = "join" => (Len(r.texts) = r.total /\ r.total >= 1)

\* C12, the steps: an item whose OCR raised (non-transient error or
\* exhaustion) or whose page could not be rendered adds its placeholder, an
\* item whose OCR returned adds the trimmed text; either way the loop goes
\* on with item i + 1, or to the join after the last item; the join puts
\* the separator between the trimmed segments.
C12_ItemStep ==
    \A s \in Sessions :
      LET r == sess[s]
          q == sess'[s]
      IN  /\ (Batch(r) /\ r.pc = "ocr" /\ r.st = "raised" /\ q # r)
                => /\ q.texts = Append(r.texts,
                                       C12_Placeholder(r.input_type, r.i, r.err.msg))
                   /\ q.i = r.i + 1
                   /\ q.pc = (IF r.i < r.total THEN "loop" ELSE "join")
                   /\ q.outcome = "running"
          /\ (Batch(r) /\ r.pc = "ocr" /\ r.st = "returned" /\ q # r)
                => /\ q.texts = Append(r.texts, Strip(r.text))
                   /\ q.i = r.i + 1
                   /\ q.pc = (IF r.i < r.total THEN "loop" ELSE "join")
          /\ (r.input_type = "PDF" /\ r.pc = "loop" /\ q.pc # "ocr" /\ q # r)
                => /\ Len(q.texts) = r.i
                   /\ SubSeq(q.texts, 1, r.i - 1) = r.texts
                   /\ C12_IsPlaceholder("PDF", r.i, q.texts[r.i])
                   /\ q.i = r.i + 1
                   /\ q.pc = (IF r.i < r.total THEN "loop" ELSE "join")
          /\ (Batch(r) /\ r.pc = "join" /\ q # r)
                => q.full_text =
                     Join(C12_Separator, [k \in 1..Len(r.texts) |-> Strip(r.texts[k])])

\* C12: in a batch a failure on item i (page not rendered, non-transient
\* OCR error, exhaustion of the candidates) does not abort the batch: the
\* result has one segment per item in item order, the trimmed OCR text or
\* the placeholder of the item, joined by the separator, and every later
\* item is still processed.
C12_BatchKeepsGoing == []C12_OnePerItem /\ [][C12_ItemStep]_vars

C12_Witness ==
    \E s \in Sessions :
      /\ sess[s].input_type = "PDF"
      /\ sess[s].total = 2
      /\ sess[s].outcome = "ok"
      /\ sess[s].full_text =
           C12_Placeholder("PDF", 1, E400) \o C12_Separator \o << "B" >>

\* a step of an invocation of ocr_with_gemini in a document loop: its entry
\* (the cache lookup) or one iteration of its loops
InvocationStep(s) ==
    \/ sess[s].pc = "loop" /\ sess'[s].pc = "ocr"
    \/ sess[s].pc = "ocr" /\ sess[s].st = "running" /\ sess'[s] # sess[s]

\* the names of the handler, which ocr_with_gemini cannot touch
HandlerNames(r) ==
    << r.use_default, r.api_key, r.usage, r.input_type, r.total, r.i,
       r.texts, r.full_text, r.outcome >>

\* C13: a step of an invocation leaves usage.json, the handler's names (the
\* loaded usage record among them) and every existing cache entry as they
\* were; the cache changes only in the step whose remote call succeeds,
\* which adds one entry, for the invocation's own key, holding the text it
\* returns; a step that raises leaves the cache unchanged.
C13_OnlyTheCacheChanges ==
    [][\A s \in Sessions :
         LET r == sess[s]
             q == sess'[s]
         IN  InvocationStep(s)
               => /\ usageFile' = usageFile
                  /\ completed' = completed
                  /\ HandlerNames(q) = HandlerNames(r)
                  /\ \A k \in DOMAIN r.cache :
                        k \in DOMAIN q.cache /\ q.cache[k] = r.cache[k]
                  /\ IF q.st = "returned" /\ q.calls = r.calls + 1
                     THEN /\ q.key \notin DOMAIN r.cache
                          /\ DOMAIN q.cache = DOMAIN r.cache \cup {q.key}
                          /\ q.cache[q.key] = q.text
                     ELSE q.cache = r.cache]_vars

C13_Witness ==
    \E s \in Sessions :
      /\ sess[s].pc = "ocr"
      /\ sess[s].st = "raised"
      /\ sess[s].calls = MaxCalls
      /\ sess[s].i = 2
      /\ Cardinality(DOMAIN sess[s].cache) = 1
      /\ sess[s].key \notin DOMAIN sess[s].cache

\* C14: a press with the personal credential chosen and no key entered is
\* refused: the run stops before ocr_with_gemini is entered, usage.json is
\* neither loaded (the name usage stays unbound) nor written; so no
\* conversion is ever under way without a key.
C14_Step ==
    \A s \in Sessions :
      (Pressed(s) /\ ~sess'[s].use_default /\ sess'[s].api_key = EmptyKey)
        => /\ sess'[s].pc = "idle"
           /\ sess'[s].outcome = "refused_key"
           /\ sess'[s].st = "none"
           /\ sess'[s].calls = 0
           /\ sess'[s].usage = NoUsage
           /\ usageFile' = usageFile

C14_NoKeyNoConversion ==
    \A s \in Sessions :
      sess[s].pc \in {"ocr", "loop", "join"} => sess[s].api_key # EmptyKey

C14_MissingKeyRefused == []C14_NoKeyNoConversion /\ [][C14_Step]_vars

C14_Witness ==
    \E s \in Sessions :
      /\ sess[s].pc = "idle"
      /\ sess[s].outcome = "refused_key"
      /\ ~sess[s].use_default
      /\ sess[s].api_key = EmptyKey
      /\ sess[s].usage = NoUsage
      /\ TodayCount = DAILY_LIMIT

\* the cache entries an earlier request with these bytes and this prompt
\* left, whatever its file name
C15_SameBytesAndPrompt(cache, data, prompt) ==
    {k \in DOMAIN cache : k[1] = Sha1(data) /\ k[Len(k)] = prompt}

\* C15: a request whose bytes and prompt are those of an earlier successful
\* request of the session, whatever the two file names, returns the earlier
\* text without a generate_content call; a request with no earlier one of
\* the same bytes and prompt (the same bytes under another prompt included)
\* goes to the remote service.
C15_KeyIgnoresFilename ==
    [][\A s \in Sessions :
         LET r    == sess[s]
             q    == sess'[s]
             same == C15_SameBytesAndPrompt(r.cache, q.data, q.prompt)
         IN  Begins(s)
               => /\ same # {}
                       => /\ q.st = "returned"
                          /\ q.calls = 0
                          /\ \E k \in same : q.text = r.cache[k]
                  /\ same = {} => q.st = "running"]_vars

\* C16: when ocr_with_gemini raises for a single image (a non-transient
\* error or the last error after exhaustion) the conversion ends with the
\* error shown: no text is joined or shown, nothing is offered for
\* download, and usage.json and the count of completed conversions are
\* left as they were.
C16_ImageFailureAborts ==
    [][\A s \in Sessions :
         LET r == sess[s]
             q == sess'[s]
         IN  (r.input_type = "Image" /\ r.pc = "ocr" /\ r.st = "raised" /\ q # r)
               => /\ q.pc = "idle"
                  /\ q.outcome = "error"
                  /\ q.texts = << >>
                  /\ q.full_text = << >>
                  /\ usageFile' = usageFile
                  /\ completed' = completed]_vars

C16_Witness ==
    \E s \in Sessions :
      /\ sess[s].pc = "idle"
      /\ sess[s].input_type = "Image"
      /\ sess[s].outcome = "error"
      /\ sess[s].full_text = << >>
      /\ sess[s].use_default
      /\ sess[s].usage.count = 0
      /\ ~usageFile.exists

\* C17, the state: no PDF or Word conversion is in its loop, in an
\* invocation or at the join with zero items.
C17_NoLoopWithoutItems ==
    \A s \in Sessions :
      (Batch(sess[s]) /\ sess[s].pc \in {"loop", "ocr", "join"})
        => sess[s].total >= 1

\* C17, the step: the conversion of a document without items ends in the
\* step of the press, with ocr_with_gemini not entered, nothing joined and
\* usage.json left as it was.
C17_Step ==
    \A s \in Sessions :
      (Ends(s) /\ sess'[s].outcome = "no_items")
        => /\ sess[s].pc = "idle"
           /\ Batch(sess'[s])
           /\ sess'[s].st = "none"
           /\ sess'[s].calls = 0
           /\ sess'[s].texts = << >>
           /\ sess'[s].full_text = << >>
           /\ usageFile' = usageFile
           /\ completed' = completed

\* C17: a PDF with zero pages or a Word file with no word/media/ entry is
\* detected before any remote OCR call; the conversion stops with no output
\* and the usage count is not incremented.
C17_StructuralErrorStops == []C17_NoLoopWithoutItems /\ [][C17_Step]_vars

C17_Witness ==
    \E s \in Sessions :
      /\ sess[s].pc = "idle"
      /\ sess[s].outcome = "no_items"
      /\ sess[s].input_type = "Word"
      /\ sess[s].use_default
      /\ sess[s].usage.count = 2
      /\ usageFile.count = 2

\* C18, the bound: an invocation makes at most 18 generate_content calls and
\* sleeps at most 18 times.
C18_Bounded ==
    \A s \in Sessions :
      /\ sess[s].calls <= MaxCalls
      /\ sess[s].sleeps <= MaxCalls
      /\ sess[s].sleeps <= sess[s].calls

\* C18, the end of an invocation: it returns a text or raises an error.
C18_InvocationEnds ==
    \A s \in Sessions :
      (sess[s].pc = "ocr" /\ sess[s].st = "running")
        ~> (sess[s].st \in {"returned", "raised"})

\* C18, the end of a conversion: the run of the script for the press ends.
C18_ConversionEnds ==
    \A s \in Sessions :
      (sess[s].pc \in {"ocr", "loop", "join"}) ~> (sess[s].pc = "idle")

\* the steps one item can take: the entry of ocr_with_gemini, 18 calls, the
\* handler taking the result
C18_StepsPerItem == MaxCalls + 3

\* the items not yet done, the one in hand included
C18_ItemsLeft(r) == IF Batch(r) THEN r.total - r.i + 1 ELSE 1

\* an upper bound of the steps a conversion has left
C18_StepsLeft(r) ==
    IF r.pc = "join" THEN 1
    ELSE IF r.pc = "loop" THEN 1 + C18_ItemsLeft(r) * C18_StepsPerItem
    ELSE IF r.pc = "ocr" /\ r.st = "running"
    THEN (C18_ItemsLeft(r) - 1) * C18_StepsPerItem + C18_StepsPerItem - r.calls
    ELSE IF r.pc = "ocr" THEN 2 + (C18_ItemsLeft(r) - 1) * C18_StepsPerItem
    ELSE 0

\* C18, the count: every step of a conversion under way lowers the number
\* of steps it has left, which is never negative.
C18_StepsRunOut ==
    \A s \in Sessions :
      (sess[s].pc \in {"ocr", "loop", "join"} /\ sess'[s] # sess[s])
        => /\ C18_StepsLeft(sess'[s]) < C18_StepsLeft(sess[s])
           /\ C18_StepsLeft(sess'[s]) >= 0

\* C18: whatever the service answers, every invocation of ocr_with_gemini
\* ends, returning or raising, after at most 18 calls (3 candidates x 6
\* attempts) and at most 18 backoff sleeps, and so every conversion ends.
C18_Terminates ==
    /\ []C18_Bounded
    /\ [][C18_StepsRunOut]_vars
    /\ C18_InvocationEnds
    /\ C18_ConversionEnds

C18_Witness ==
    \E s \in Sessions :
      /\ sess[s].st = "raised"
      /\ sess[s].calls = MaxCalls
      /\ sess[s].sleeps = MaxCalls
      /\ sess[s].lastOut.err.msg = E503

\* C19, the step: an invocation that misses the cache enters its loops at the
\* first candidate with attempt 0, no call made and no error recorded,
\* whatever the invocations before it did.
C19_Step ==
    \A s \in Sessions :
      (Begins(s) /\ sess'[s].st = "running")
        => /\ models[sess'[s].model] = CandidateOrder[1]
           /\ sess'[s].attempt = 0
           /\ sess'[s].calls = 0
           /\ sess'[s].last_err = NoneErr

\* C19, the first call: it goes to the first candidate as attempt 0.
C19_FirstCall ==
    \A s \in Sessions :
      sess[s].calls = 1
        => /\ sess[s].lastOut.model = CandidateOrder[1]
           /\ sess[s].lastOut.attempt = 0

\* C19: every uncached call of ocr_with_gemini starts at the first candidate
\* with attempt 0, regardless of which candidate answered or failed in
\* earlier calls, for earlier pages or in earlier conversions.
C19_StartsAtFirstCandidate == []C19_FirstCall /\ [][C19_Step]_vars

\* page 1 went through all three candidates and failed; page 2 starts at the
\* first one
C19_Witness ==
    \E s \in Sessions :
      /\ sess[s].input_type = "PDF"
      /\ sess[s].pc = "ocr"
      /\ sess[s].i = 2
      /\ sess[s].texts = << C12_Placeholder("PDF", 1, E503) >>
      /\ sess[s].st = "running"
      /\ sess[s].calls = 1
      /\ sess[s].lastOut.model = "gemini-2.5-flash"
      /\ sess[s].attempt = 1

\* C20: while one session alone has pressed Convert, today's count in
\* usage.json is the number of shared-credential conversions completed
\* today and neither exceeds DAILY_LIMIT; the stored count never exceeds
\* DAILY_LIMIT.  (With two sessions interleaved the number of conversions
\* does exceed it and an increment is lost: C20_Witness.)
C20_OneSessionWithinLimit ==
    /\ usageFile.count <= DAILY_LIMIT
    /\ (\E s \in Sessions : sess[s] = NewSession("idle"))
         => /\ completed <= DAILY_LIMIT
            /\ completed = TodayCount

\* both sessions loaded the count 4, both completed: six conversions today,
\* the count 5
C20_Witness ==
    /\ completed = DAILY_LIMIT + 1
    /\ TodayCount = DAILY_LIMIT
    /\ \A s \in Sessions :
         /\ sess[s].pc = "idle"
         /\ sess[s].outcome = "ok"
         /\ sess[s].use_default
         /\ sess[s].usage.count = DAILY_LIMIT

\* every segment is an OCR text that is empty once trimmed
C21_AllBlank(r) ==
    /\ Len(r.texts) >= 1
    /\ \A k \in 1..Len(r.texts) : Strip(r.texts[k]) = << >>

\* every segment is the placeholder of a failed item
C21_AllPlaceholders(r) ==
    /\ Batch(r)
    /\ Len(r.texts) >= 1
    /\ \A k \in 1..Len(r.texts) : C12_IsPlaceholder(r.input_type, k, r.texts[k])

\* C21: at the end of a shared-credential conversion usage.json is written
\* only when the joined text is not blank; when every OCR call returned
\* empty or whitespace text usage.json is left as it was, although remote
\* calls were made; when every item of a batch failed and left its
\* placeholder the run does not end that way, and where it completes
\* today's count goes up by 1.
C21_CountOnlyNonBlank ==
    [][\A s \in Sessions :
         LET r == sess[s]
             q == sess'[s]
         IN  (r.pc = "join" /\ r.use_default /\ q # r)
               => /\ usageFile' # usageFile => Strip(q.full_text) # << >>
                  /\ C21_AllBlank(r) => usageFile' = usageFile
                  /\ C21_AllPlaceholders(r)
                       => /\ q.outcome # "empty"
                          /\ q.outcome = "ok"
                               => usageFile' =
                                    [exists |-> TRUE, date |-> IsoFormat(today),
                                     count |-> TodayCount + 1]]_vars

====
